---- MODULE Spec2Model ----
(***************************************************************************)
(* State-machine model of the rate-limiter crate: FixedWindowPolicy and    *)
(* SlidingWindowPolicy over the key-addressed Storage contract.            *)
(*                                                                         *)
(* Time is the millisecond timestamp LocalTime::now().timestamp_millis().  *)
(* One call reads the clock once: every clock read of a single reserve     *)
(* returns the same millisecond.                                           *)
(***************************************************************************)
EXTENDS Integers, Sequences, FiniteSets, TLC

(* ------------------------------ bounds -------------------------------- *)

\* The limit every valid policy is constructed with.
Limit == 2

\* The interval (ms) every policy is constructed with.
Interval == 3

\* Number of clock ticks explored after the first instant.
Horizon == 7

\* The wall clock is far past the epoch: now > interval from the start.
Epoch == Interval + 1

MaxTime == Epoch + Horizon

\* The key space of the storage, and the keys policies are constructed for.
Keys == {"a", "b"}

BoundKeys == {"a"}

\* Commits are explored while the stored hit count stays within this cap.
MaxHits == Limit + 3

\* usize arithmetic, kept at a reduced width (operands stay far below it).
UsizeModulus == 2^16

(* ------------------------------ options ------------------------------- *)

None == <<>>

Some(x) == <<x>>

IsSome(o) == Len(o) > 0

Unwrap(o) == o[1]

UnwrapOr(o, d) == IF IsSome(o) THEN o[1] ELSE d

Min(a, b) == IF a <= b THEN a ELSE b

Max(a, b) == IF a >= b THEN a ELSE b

\* usize subtraction as a build without overflow checks computes it.
WrappingSub(a, b) == (a - b) % UsizeModulus

\* i64 -> usize cast (two's complement reinterpretation).
AsUsize(x) == x % UsizeModulus

(* ------------------------------ state --------------------------------- *)

VARIABLES
    algo,      \* which policy/state type the storage is instantiated for
    build,     \* whether the build checks integer overflow (panics) or wraps
    now,       \* the clock
    store,     \* InMemoryStorage.store: key -> state, or Absent
    policy,    \* the live policy holding the storage borrow, or NoPolicy
    last,      \* the most recent call and what it returned
    inflight,  \* SpecConc only: per caller, the position inside reserve
    admitted   \* history: per key, tokens accepted in its current window

vars == <<algo, build, now, store, policy, last, inflight, admitted>>

Absent == [absent |-> TRUE]

NoPolicy == [limit |-> 0, key |-> "", interval |-> 0]

Callers == {1, 2}

Idle == [pc |-> "idle", tokens |-> 0, max_time |-> None, state |-> Absent,
         at |-> 0, out |-> Absent]

NoCall == [op |-> "none", key |-> "", limit |-> 0, tokens |-> 0, max_time |-> None,
           res |-> "none", requested |-> 0, max |-> 0,
           available_tokens |-> 0, retry_after |-> 0, time_to_act |-> 0,
           accepted |-> FALSE, now |-> 0, fetched |-> FALSE, saved |-> FALSE]

(* ------------------------------ storage ------------------------------- *)

\* InMemoryStorage::fetch: a clone of the slot's value, or None.
StorageFetch(s, key) == s[key]

\* Mutant: the value is written to every slot, not only the key's.
StorageSaveEverySlot(s, key, value) == [k \in DOMAIN s |-> value]

\* InMemoryStorage::save: replace the slot's value, or insert the slot.
StorageSave(s, key, value) == [s EXCEPT ![key] = value]

(* --------------------------- FixedWindowState ------------------------- *)

FixedWindowStateNew(interval, max_size) ==
    [hit_count |-> 0, interval |-> interval, max_size |-> max_size, timer |-> 0]

\* Mutant: the window is reset one millisecond early (>= for >).
FixedAddEarly(st, hits, t) ==
    LET reset == (t - st.timer) >= st.interval
        base == IF reset THEN [st EXCEPT !.timer = t, !.hit_count = 0] ELSE st
    IN  [base EXCEPT !.hit_count = base.hit_count + hits]

FixedAdd(st, hits, t) ==
    LET reset == (t - st.timer) > st.interval
        base == IF reset THEN [st EXCEPT !.timer = t, !.hit_count = 0] ELSE st
    IN  [base EXCEPT !.hit_count = base.hit_count + hits]

\* Mutant: the window counts as over one millisecond early (>= for >).
FixedGetAvailableTokensEarly(st, t) ==
    IF (t - st.timer) >= st.interval THEN Some(st.max_size)
    ELSE IF st.hit_count > st.max_size THEN None
    ELSE Some(st.max_size - st.hit_count)

FixedGetAvailableTokens(st, t) ==
    IF (t - st.timer) > st.interval THEN Some(st.max_size)
    ELSE IF st.hit_count > st.max_size THEN None
    ELSE Some(st.max_size - st.hit_count)

\* max_size - hit_count is an unchecked usize subtraction.
FixedCalcUnderflows(st) == st.hit_count > st.max_size

\* Mutant: the wait is measured to the window's start, not to its end.
FixedCalculateTimeToWindowStart(st, tokens, t) ==
    IF WrappingSub(st.max_size, st.hit_count) >= tokens THEN 0
    ELSE st.timer - t

FixedCalculateTimeForTokens(st, tokens, t) ==
    IF WrappingSub(st.max_size, st.hit_count) >= tokens THEN 0
    ELSE st.timer + st.interval - t

(* ------------------------------ results ------------------------------- *)

\* What one reserve call returns and hands to storage.
Outcome(res, available, retry, act, accepted, fetched, saved, state) ==
    [res |-> res, requested |-> 0, max |-> 0, available_tokens |-> available,
     retry_after |-> retry, time_to_act |-> act, accepted |-> accepted,
     fetched |-> fetched, saved |-> saved, state |-> state]

TooManyTokensError(requested, max) ==
    [Outcome("TooManyTokensError", 0, 0, 0, FALSE, FALSE, FALSE, Absent)
        EXCEPT !.requested = requested, !.max = max]

MaxWaitDurationExceededError ==
    Outcome("MaxWaitDurationExceededError", 0, 0, 0, FALSE, TRUE, FALSE, Absent)

\* "attempt to subtract with overflow": the call unwinds before any save.
Panic == Outcome("Panic", 0, 0, 0, FALSE, TRUE, FALSE, Absent)

\* A usize subtraction that underflows panics in a build with overflow
\* checks and wraps in a build without them.
Builds(underflows, wrapped) ==
    IF underflows /\ build = "checked" THEN {Panic} ELSE {wrapped}

(* --------------------------- FixedWindowPolicy ------------------------ *)

\* reserve, the fetched value or a fresh state (unwrap_or_else).
FixedLoad(p, fetched) ==
    IF fetched = Absent THEN FixedWindowStateNew(p.interval, p.limit) ELSE fetched

\* Mutant: the probe hands its state to storage.save like the other branches.
FixedProbeSaves(state, t) ==
    LET available_tokens == FixedGetAvailableTokens(state, t)
        wait_duration == FixedCalculateTimeForTokens(state, 0, t)
    IN  Builds(FixedCalcUnderflows(state),
               Outcome("Ok", UnwrapOr(available_tokens, 0),
                       t + wait_duration, t + wait_duration,
                       TRUE, TRUE, TRUE, state))

\* reserve, tokens == 0: report without touching the state.
FixedProbe(state, t) ==
    LET available_tokens == FixedGetAvailableTokens(state, t)
        wait_duration == FixedCalculateTimeForTokens(state, 0, t)
    IN  Builds(FixedCalcUnderflows(state),
               Outcome("Ok", UnwrapOr(available_tokens, 0),
                       t + wait_duration, t + wait_duration,
                       TRUE, TRUE, FALSE, Absent))

\* Mutant: an accepted request is returned without being counted.
FixedAcceptUncounted(state, tokens, t) ==
    LET added == FixedAdd(state, 0, t)
    IN  {Outcome("Ok", UnwrapOr(FixedGetAvailableTokens(added, t), 0),
                 t, t, TRUE, TRUE, TRUE, added)}

\* reserve, the request fits: commit now.
FixedAccept(state, tokens, t) ==
    LET added == FixedAdd(state, tokens, t)
    IN  {Outcome("Ok", UnwrapOr(FixedGetAvailableTokens(added, t), 0),
                 t, t, TRUE, TRUE, TRUE, added)}

\* Mutant: the state is committed before max_time is looked at.
FixedDeferCommitsFirst(state, tokens, max_time, t) ==
    LET wait_duration == FixedCalculateTimeForTokens(state, tokens, t)
        added == FixedAdd(state, tokens, t)
    IN  Builds(FixedCalcUnderflows(state),
               IF IsSome(max_time) /\ wait_duration > Unwrap(max_time)
               THEN [MaxWaitDurationExceededError EXCEPT !.saved = TRUE,
                                                         !.state = added]
               ELSE Outcome("Ok", UnwrapOr(FixedGetAvailableTokens(added, t), 0),
                            t + wait_duration, t + wait_duration,
                            FALSE, TRUE, TRUE, added))

\* Mutant: a wait equal to max_time is refused too (>= for >).
FixedDeferAtLeast(state, tokens, max_time, t) ==
    LET wait_duration == FixedCalculateTimeForTokens(state, tokens, t)
        added == FixedAdd(state, tokens, t)
    IN  Builds(FixedCalcUnderflows(state),
               IF IsSome(max_time) /\ wait_duration >= Unwrap(max_time)
               THEN MaxWaitDurationExceededError
               ELSE Outcome("Ok", UnwrapOr(FixedGetAvailableTokens(added, t), 0),
                            t + wait_duration, t + wait_duration,
                            FALSE, TRUE, TRUE, added))

\* reserve, the request does not fit: give up past max_time, else commit
\* for the computed moment.
FixedDefer(state, tokens, max_time, t) ==
    LET wait_duration == FixedCalculateTimeForTokens(state, tokens, t)
        added == FixedAdd(state, tokens, t)
    IN  Builds(FixedCalcUnderflows(state),
               IF IsSome(max_time) /\ wait_duration > Unwrap(max_time)
               THEN MaxWaitDurationExceededError
               ELSE Outcome("Ok", UnwrapOr(FixedGetAvailableTokens(added, t), 0),
                            t + wait_duration, t + wait_duration,
                            FALSE, TRUE, TRUE, added))

\* FixedWindowPolicy::reserve after the fetch: decide on the fetched value.
FixedDecide(p, fetched, tokens, max_time, t) ==
    LET state == FixedLoad(p, fetched)
        available_tokens == FixedGetAvailableTokens(state, t)
    IN  IF tokens = 0 THEN FixedProbe(state, t)
        ELSE IF IsSome(available_tokens) /\ Unwrap(available_tokens) >= tokens
        THEN FixedAccept(state, tokens, t)
        ELSE FixedDefer(state, tokens, max_time, t)

\* Mutant: the tokens > limit guard is missing.
FixedReserveUnguarded(p, s, tokens, max_time, t) ==
    FixedDecide(p, StorageFetch(s, p.key), tokens, max_time, t)

FixedReserve(p, s, tokens, max_time, t) ==
    IF tokens > p.limit THEN {TooManyTokensError(tokens, p.limit)}
    ELSE FixedDecide(p, StorageFetch(s, p.key), tokens, max_time, t)

(* -------------------------- SlidingWindowState ------------------------ *)

SlidingWindowStateNew(interval, t) ==
    [hit_count |-> 0, hit_count_for_last_window |-> 0, interval |-> interval,
     window_end_at |-> t + interval]

\* Mutant: the window that starts exactly one interval after the old one
\* ended still counts as contiguous (<= for <).
CreateFromPreviousWindowInclusive(window, interval, t) ==
    LET new == SlidingWindowStateNew(interval, t)
        window_end_at == window.window_end_at + interval
    IN  IF t <= window_end_at
        THEN [new EXCEPT !.hit_count_for_last_window = window.hit_count,
                         !.window_end_at = window_end_at]
        ELSE new

CreateFromPreviousWindow(window, interval, t) ==
    LET new == SlidingWindowStateNew(interval, t)
        window_end_at == window.window_end_at + interval
    IN  IF t < window_end_at
        THEN [new EXCEPT !.hit_count_for_last_window = window.hit_count,
                         !.window_end_at = window_end_at]
        ELSE new

IsExpired(st, t) == t > st.window_end_at

SlidingAdd(st, hits) == [st EXCEPT !.hit_count = st.hit_count + hits]

\* min(now - start_of_window, 1) as usize
PercentOfCurrentTimeFrame(st, t) ==
    AsUsize(Min(t - (st.window_end_at - st.interval), 1))

\* 1 - percent_of_current_time_frame is an unchecked usize subtraction.
GetHitCountUnderflows(st, t) == PercentOfCurrentTimeFrame(st, t) > 1

GetHitCount(st, t) ==
    (st.hit_count_for_last_window * WrappingSub(1, PercentOfCurrentTimeFrame(st, t))
        + st.hit_count) % UsizeModulus

\* floor(hit_count_for_last_window * (1 - window_passed)) as usize, with
\* window_passed = min(time_passed / interval, 1) (exact for these operands).
CarriedOver(st, t) ==
    LET time_passed == t - (st.window_end_at - st.interval)
    IN  IF time_passed > st.interval THEN 0
        ELSE (st.hit_count_for_last_window * (st.interval - time_passed))
                 \div st.interval

\* max_size - get_hit_count() and max_size - floor(..) are unchecked.
SlidingCalcUnderflows(st, max_size, tokens, t) ==
    \/ GetHitCountUnderflows(st, t)
    \/ GetHitCount(st, t) > max_size
    \/ /\ max_size - GetHitCount(st, t) < tokens
       /\ CarriedOver(st, t) > max_size

SlidingCalculateTimeForTokens(st, max_size, tokens, t) ==
    LET remaining == WrappingSub(max_size, GetHitCount(st, t))
        time_passed == t - (st.window_end_at - st.interval)
        releasable == Max(1, WrappingSub(max_size, CarriedOver(st, t)))
        remaining_window == AsUsize(st.interval - time_passed)
        needed == WrappingSub(tokens, remaining)
    IN  IF remaining >= tokens THEN 0
        ELSE IF releasable >= needed
        THEN (needed * remaining_window) \div Max(1, releasable)
        ELSE (st.window_end_at - t)
                 + (needed - releasable) * (st.interval \div max_size)

(* -------------------------- SlidingWindowPolicy ----------------------- *)

SlidingGetAvailableTokens(limit, hit_count) ==
    IF hit_count > limit THEN None ELSE Some(limit - hit_count)

\* reserve, the fetched value or a fresh state, rolled forward if expired.
SlidingLoad(p, fetched, t) ==
    LET state == IF fetched = Absent
                 THEN SlidingWindowStateNew(p.interval, t) ELSE fetched
    IN  IF IsExpired(state, t)
        THEN CreateFromPreviousWindow(state, p.interval, t) ELSE state

\* reserve, tokens == 0: report without touching the state.
SlidingProbe(p, state, t) ==
    LET hit_count == GetHitCount(state, t)
        available_tokens ==
            UnwrapOr(SlidingGetAvailableTokens(p.limit, hit_count), 0)
        reset_duration ==
            SlidingCalculateTimeForTokens(state, p.limit, hit_count, t)
        reset_time == IF available_tokens > 0 THEN t ELSE t + reset_duration
    IN  Builds(SlidingCalcUnderflows(state, p.limit, hit_count, t),
               Outcome("Ok", available_tokens, reset_time, t,
                       TRUE, TRUE, FALSE, Absent))

\* reserve, the request fits: commit now.
SlidingAccept(p, state, tokens, t) ==
    LET added == SlidingAdd(state, tokens)
    IN  Builds(GetHitCountUnderflows(state, t),
               Outcome("Ok",
                       UnwrapOr(SlidingGetAvailableTokens(
                                    p.limit, GetHitCount(added, t)), 0),
                       t, t, TRUE, TRUE, TRUE, added))

\* reserve, the request does not fit: give up past max_time, else commit
\* for the computed moment.
SlidingDefer(p, state, tokens, max_time, t) ==
    LET wait_duration == SlidingCalculateTimeForTokens(state, p.limit, tokens, t)
        added == SlidingAdd(state, tokens)
    IN  Builds(SlidingCalcUnderflows(state, p.limit, tokens, t),
               IF IsSome(max_time) /\ wait_duration > Unwrap(max_time)
               THEN MaxWaitDurationExceededError
               ELSE Outcome("Ok",
                            UnwrapOr(SlidingGetAvailableTokens(
                                         p.limit, GetHitCount(added, t)), 0),
                            t + wait_duration, t + wait_duration,
                            FALSE, TRUE, TRUE, added))

\* SlidingWindowPolicy::reserve after the fetch: decide on the fetched value.
SlidingDecide(p, fetched, tokens, max_time, t) ==
    LET state == SlidingLoad(p, fetched, t)
        available_tokens ==
            SlidingGetAvailableTokens(p.limit, GetHitCount(state, t))
    IN  IF tokens = 0 THEN SlidingProbe(p, state, t)
        ELSE IF IsSome(available_tokens) /\ Unwrap(available_tokens) >= tokens
        THEN SlidingAccept(p, state, tokens, t)
        ELSE SlidingDefer(p, state, tokens, max_time, t)

SlidingReserve(p, s, tokens, max_time, t) ==
    IF tokens > p.limit THEN {TooManyTokensError(tokens, p.limit)}
    ELSE SlidingDecide(p, StorageFetch(s, p.key), tokens, max_time, t)

(* ------------------------------ actions ------------------------------- *)

Tokens == 0 .. (Limit + 1)

MaxTimes == {None, Some(0), Some(Interval - 1)}

ReserveOutcomes(p, s, tokens, max_time, t) ==
    IF algo = "fixed" THEN FixedReserve(p, s, tokens, max_time, t)
    ELSE SlidingReserve(p, s, tokens, max_time, t)

CallRecord(o, p, tokens, max_time, t) ==
    [op |-> "reserve", key |-> p.key, limit |-> p.limit, tokens |-> tokens,
     max_time |-> max_time,
     res |-> o.res, requested |-> o.requested, max |-> o.max,
     available_tokens |-> o.available_tokens, retry_after |-> o.retry_after,
     time_to_act |-> o.time_to_act, accepted |-> o.accepted, now |-> t,
     fetched |-> o.fetched, saved |-> o.saved]

Init ==
    /\ algo \in {"fixed", "sliding"}
    /\ build \in {"checked", "wrapping"}
    /\ now = Epoch
    /\ store = [k \in Keys |-> Absent]
    /\ policy = NoPolicy
    /\ last = NoCall
    /\ inflight = [c \in Callers |-> Idle]
    /\ admitted = [k \in Keys |-> 0]

\* The clock advances.
Tick ==
    /\ now < MaxTime
    /\ now' = now + 1
    /\ UNCHANGED <<algo, build, store, policy, last, inflight, admitted>>

\* Mutant: the key is validated before the limit.
PolicyNewKeyFirst(limit, key) ==
    IF key = "" THEN [res |-> "EmptyKeyError", policy |-> NoPolicy]
    ELSE IF limit = 0 THEN [res |-> "ZeroLimitError", policy |-> NoPolicy]
    ELSE [res |-> "Ok",
          policy |-> [limit |-> limit, key |-> key, interval |-> Interval]]

\* FixedWindowPolicy::new / SlidingWindowPolicy::new. The storage borrow is
\* exclusive, so the previous policy is gone when a new one is constructed.
PolicyNew(limit, key) ==
    IF limit = 0 THEN [res |-> "ZeroLimitError", policy |-> NoPolicy]
    ELSE IF key = "" THEN [res |-> "EmptyKeyError", policy |-> NoPolicy]
    ELSE [res |-> "Ok",
          policy |-> [limit |-> limit, key |-> key, interval |-> Interval]]

NewPolicy(limit, key) ==
    LET r == PolicyNew(limit, key)
    IN  /\ policy' = r.policy
        /\ last' = [NoCall EXCEPT !.op = "new", !.key = key, !.res = r.res,
                                  !.limit = limit, !.now = now]
        /\ UNCHANGED <<algo, build, now, store, inflight, admitted>>

\* The saved state post starts a window: the key had no state, or the
\* commit reset (fixed) or rolled forward (sliding) the stored window.
StartsWindow(pre, post) ==
    \/ pre = Absent
    \/ algo = "fixed" /\ post.timer # pre.timer
    \/ algo = "sliding" /\ post.window_end_at # pre.window_end_at

\* Tokens accepted in the key's current window, after a call with outcome o.
Admit(adm, s, key, tokens, o) ==
    IF ~o.saved THEN adm
    ELSE [adm EXCEPT ![key] =
             (IF StartsWindow(s[key], o.state) THEN 0 ELSE @)
                + (IF o.accepted THEN tokens ELSE 0)]

\* Policy::reserve, start to end: fetch, decide, conditional save.
Reserve(tokens, max_time) ==
    /\ policy # NoPolicy
    /\ \E o \in ReserveOutcomes(policy, store, tokens, max_time, now) :
          /\ o.saved => o.state.hit_count <= MaxHits
          /\ store' = IF o.saved THEN StorageSave(store, policy.key, o.state)
                      ELSE store
          /\ last' = CallRecord(o, policy, tokens, max_time, now)
          /\ admitted' = Admit(admitted, store, policy.key, tokens, o)
    /\ UNCHANGED <<algo, build, now, policy, inflight>>

\* Policy::consume(tokens) is reserve(tokens, None).
Consume(tokens) == Reserve(tokens, None)

Next ==
    \/ Tick
    \/ \E limit \in {0, Limit}, key \in BoundKeys \cup {""} : NewPolicy(limit, key)
    \/ \E tokens \in Tokens, max_time \in MaxTimes : Reserve(tokens, max_time)
    \/ \E tokens \in Tokens : Consume(tokens)

Spec == Init /\ [][Next]_vars

(* ------------------- concurrent callers on one key -------------------- *)

\* Each caller holds its own policy over its own handle to the shared store.
SharedPolicy == [limit |-> Limit, key |-> "a", interval |-> Interval]

Decide(p, fetched, tokens, max_time, t) ==
    IF algo = "fixed" THEN FixedDecide(p, fetched, tokens, max_time, t)
    ELSE SlidingDecide(p, fetched, tokens, max_time, t)

\* reserve up to and including storage.fetch: the slot's lock is released
\* as soon as the clone is taken.
BeginReserve(c, tokens, max_time) ==
    /\ inflight[c].pc = "idle"
    /\ inflight' = [inflight EXCEPT ![c] =
          IF tokens > SharedPolicy.limit
          THEN [Idle EXCEPT !.pc = "done", !.tokens = tokens,
                            !.max_time = max_time, !.at = now,
                            !.out = TooManyTokensError(tokens, SharedPolicy.limit)]
          ELSE [Idle EXCEPT !.pc = "fetched", !.tokens = tokens,
                            !.max_time = max_time,
                            !.state = StorageFetch(store, SharedPolicy.key)]]
    /\ UNCHANGED <<algo, build, now, store, policy, last, admitted>>

\* reserve from the clock read to the return: decide on the clone fetched
\* earlier, then storage.save unconditionally replaces the slot.
FinishReserve(c) ==
    /\ inflight[c].pc = "fetched"
    /\ \E o \in Decide(SharedPolicy, inflight[c].state, inflight[c].tokens,
                       inflight[c].max_time, now) :
          /\ store' = IF o.saved THEN StorageSave(store, SharedPolicy.key, o.state)
                      ELSE store
          /\ inflight' = [inflight EXCEPT ![c].pc = "done", ![c].at = now,
                                          ![c].out = o]
    /\ UNCHANGED <<algo, build, now, policy, last, admitted>>

NextConc ==
    \/ Tick
    \/ \E c \in Callers, tokens \in Tokens, max_time \in MaxTimes :
          BeginReserve(c, tokens, max_time)
    \/ \E c \in Callers : FinishReserve(c)

SpecConc == Init /\ [][NextConc]_vars

(* ------------------------------ claims -------------------------------- *)

\* A step that is one reserve/consume call; last' describes it, the unprimed
\* variables are the state it was issued in.
Called == last'.op = "reserve" /\ now' = now /\ vars' # vars

\* A step that is one policy construction.
Constructed == last'.op = "new" /\ vars' # vars

\* C1: a request for more tokens than the limit returns
\* TooManyTokensError{requested = tokens, max = limit} whatever max_wait is,
\* without fetching or saving: the stored state of every key is unchanged.
TooManyTokensTouchesNothing ==
    [][Called /\ last'.tokens > policy.limit =>
          /\ last'.res = "TooManyTokensError"
          /\ last'.requested = last'.tokens
          /\ last'.max = policy.limit
          /\ ~last'.fetched /\ ~last'.saved
          /\ store' = store]_vars

TooManyTokensSeen ==
    /\ last.op = "reserve" /\ last.tokens > last.limit
    /\ last.res = "TooManyTokensError"
    /\ IsSome(last.max_time)
    /\ store[last.key] # Absent

\* C2: a call that returns MaxWaitDurationExceededError saved nothing:
\* fetch(key) is the same after as before, absent included.
MaxWaitLeavesStorage ==
    [][Called /\ last'.res = "MaxWaitDurationExceededError" =>
          ~last'.saved /\ store' = store]_vars

MaxWaitSeen ==
    /\ last.op = "reserve" /\ last.res = "MaxWaitDurationExceededError"
    /\ store[last.key] # Absent
    /\ store[last.key].hit_count = last.limit

\* The store after outcome o of a call on SharedPolicy's key.
Applied(s, o) ==
    IF o.saved THEN StorageSave(s, SharedPolicy.key, o.state) ELSE s

\* The two concurrent calls, run one after the other from the empty store in
\* the order first, second, return what the callers got and leave the store
\* as it is now.
SerialOrder(first, second) ==
    \E o1 \in ReserveOutcomes(SharedPolicy, [k \in Keys |-> Absent],
                              inflight[first].tokens, inflight[first].max_time,
                              inflight[first].at) :
       \E o2 \in ReserveOutcomes(SharedPolicy, Applied([k \in Keys |-> Absent], o1),
                                 inflight[second].tokens,
                                 inflight[second].max_time, inflight[second].at) :
          /\ o1 = inflight[first].out
          /\ o2 = inflight[second].out
          /\ store = Applied(Applied([k \in Keys |-> Absent], o1), o2)

\* C3: concurrent reserve calls on one key behave as atomic
\* read-modify-writes: once both callers have returned, the stored state and
\* the two results are those of the calls run in some sequential order, so no
\* committed reservation is lost.
ConcurrentReservesSerialize ==
    (\A c \in Callers : inflight[c].pc = "done") =>
        SerialOrder(1, 2) \/ SerialOrder(2, 1)

\* C4: sliding window: after a burst of `limit` tokens was accepted at the
\* very end of a window (its last two milliseconds), a burst of `limit`
\* tokens requested right after the contiguous next window has begun is
\* not accepted: the decayed carry-over of the first burst leaves less than
\* `limit` available.
SlidingBurstCarriesOver ==
    [][/\ Called /\ algo = "sliding"
       /\ last.op = "reserve" /\ last.res = "Ok" /\ last.accepted
       /\ last.tokens = last.limit /\ last.key = last'.key
       /\ store[last.key] # Absent
       /\ store[last.key].hit_count = last.limit
       /\ last.now >= store[last.key].window_end_at - 1
       /\ now = store[last.key].window_end_at + 1
       /\ last'.tokens = last'.limit
       => ~(last'.res = "Ok" /\ last'.accepted)]_vars

\* No window boundary of stored state st lies between instants t1 and t2.
SameWindow(st, t1, t2) ==
    \/ st = Absent
    \/ /\ algo = "fixed"
       /\ ((t1 - st.timer) > st.interval) <=> ((t2 - st.timer) > st.interval)
    \/ /\ algo = "sliding"
       /\ IsExpired(st, t1) <=> IsExpired(st, t2)

\* C5: a probe (tokens = 0) never saves, so the store is the same before and
\* after it; and a probe that directly follows another probe on the same key,
\* with no window boundary crossed between the two, reports the same
\* available_tokens.
ProbeIsIdempotent ==
    [][Called /\ last'.tokens = 0 =>
          /\ ~last'.saved /\ store' = store
          /\ (/\ last.op = "reserve" /\ last.tokens = 0 /\ last.res = "Ok"
              /\ last'.res = "Ok" /\ last.key = last'.key
              /\ SameWindow(store[last.key], last.now, now)
              => last'.available_tokens = last.available_tokens)]_vars

ProbeSeen ==
    /\ last.op = "reserve" /\ last.tokens = 0 /\ last.res = "Ok"
    /\ store[last.key] # Absent
    /\ last.available_tokens < last.limit
    /\ last.now > Epoch

FixedRetryAfterSucceeds ==
    [][/\ Called /\ algo = "fixed"
       /\ last.op = "reserve" /\ last.res = "Ok" /\ ~last.accepted
       /\ last.key = last'.key
       /\ last'.tokens >= 1 /\ last'.tokens <= policy.limit
       /\ last'.max_time = None
       /\ now > last.retry_after
       => /\ last'.res = "Ok" /\ last'.accepted
          /\ last'.retry_after = now
          /\ last'.available_tokens = policy.limit - last'.tokens]_vars

\* The state a call at t works on, what it offers and the wait it computes.
Loaded(p, fetched, t) ==
    IF algo = "fixed" THEN FixedLoad(p, fetched) ELSE SlidingLoad(p, fetched, t)

AvailableNow(p, st, t) ==
    IF algo = "fixed" THEN FixedGetAvailableTokens(st, t)
    ELSE SlidingGetAvailableTokens(p.limit, GetHitCount(st, t))

ComputedWait(p, st, tokens, t) ==
    IF algo = "fixed" THEN FixedCalculateTimeForTokens(st, tokens, t)
    ELSE SlidingCalculateTimeForTokens(st, p.limit, tokens, t)

\* C8: reserve returns MaxWaitDurationExceededError exactly when max_wait is
\* Some(m), 0 < tokens <= limit, the request does not fit what is available
\* and the computed wait is strictly greater than m; so a deferred
\* reservation under Some(m) has retry_after - now <= m, and a request that
\* fits is accepted whatever max_wait is.
MaxWaitExactlyWhenWaitExceeds ==
    [][Called =>
          LET st == Loaded(policy, store[last'.key], now)
              offered == AvailableNow(policy, st, now)
              fits == IsSome(offered) /\ Unwrap(offered) >= last'.tokens
              sized == last'.tokens > 0 /\ last'.tokens <= policy.limit
          IN  /\ last'.res = "MaxWaitDurationExceededError" <=>
                    /\ IsSome(last'.max_time) /\ sized /\ ~fits
                    /\ ComputedWait(policy, st, last'.tokens, now)
                           > Unwrap(last'.max_time)
              /\ (last'.res = "Ok" /\ ~last'.accepted /\ IsSome(last'.max_time))
                    => last'.retry_after - now <= Unwrap(last'.max_time)
              /\ (sized /\ fits) => (last'.res = "Ok" /\ last'.accepted)]_vars

MaxWaitBoundarySeen ==
    /\ last.op = "reserve" /\ last.res = "Ok" /\ ~last.accepted
    /\ IsSome(last.max_time)
    /\ last.retry_after - last.now = Unwrap(last.max_time)
    /\ last.retry_after > last.now

\* C9: when a returned RateLimit reports 0 remaining tokens, its retry_after
\* is a time after which a token is available: a probe that directly follows
\* on the same key, at any time strictly later than that retry_after, reports
\* available_tokens >= 1.
RetryAfterGivesToken ==
    [][/\ Called
       /\ last.op = "reserve" /\ last.res = "Ok" /\ last.available_tokens = 0
       /\ last.key = last'.key
       /\ last'.tokens = 0 /\ last'.res = "Ok"
       /\ now > last.retry_after
       => last'.available_tokens >= 1]_vars

\* C10: constructing a policy succeeds exactly when limit > 0 and the key is
\* not empty; limit = 0 gives ZeroLimitError, an empty key with limit > 0
\* gives EmptyKeyError, and no construction touches the storage.
ConstructionValidates ==
    [][Constructed =>
          /\ last'.res = "Ok" <=> (last'.limit > 0 /\ last'.key # "")
          /\ last'.limit = 0 => last'.res = "ZeroLimitError"
          /\ (last'.limit > 0 /\ last'.key = "") => last'.res = "EmptyKeyError"
          /\ last'.res = "Ok" =>
                (policy'.limit = last'.limit /\ policy'.key = last'.key)
          /\ last'.res # "Ok" => policy' = NoPolicy
          /\ ~last'.fetched /\ ~last'.saved
          /\ store' = store]_vars

ConstructionRefusedSeen ==
    /\ last.op = "new" /\ last.res = "ZeroLimitError" /\ last.key = ""
    /\ \E k \in Keys : store[k] # Absent

\* The call reaches FixedWindowState::calculate_time_for_tokens: it is a
\* probe, or a request that does not fit what is available.
FixedReachesCalc(p, fetched, tokens, t) ==
    LET state == FixedLoad(p, fetched)
        offered == FixedGetAvailableTokens(state, t)
    IN  tokens = 0 \/ ~(IsSome(offered) /\ Unwrap(offered) >= tokens)

\* C11: fixed window: no reserve/consume call with tokens <= limit evaluates
\* an unsigned subtraction whose result is negative, probes and calls on an
\* over-subscribed window (hit_count > limit) included; every such call
\* returns a Reservation or a ReserveError.
FixedNeverUnderflows ==
    [][Called /\ algo = "fixed" /\ last'.tokens <= policy.limit =>
          /\ ~(/\ FixedReachesCalc(policy, store[last'.key], last'.tokens, now)
               /\ FixedCalcUnderflows(FixedLoad(policy, store[last'.key])))
          /\ last'.res \in {"Ok", "MaxWaitDurationExceededError"}]_vars

\* The unsigned subtractions a sliding-window call evaluates, on the state it
\* loaded: get_hit_count always, calculate_time_for_tokens for a probe (asked
\* for hit_count tokens) and for a request that does not fit.
SlidingSubtractsBelowZero(p, fetched, tokens, t) ==
    LET state == SlidingLoad(p, fetched, t)
        hit_count == GetHitCount(state, t)
        offered == SlidingGetAvailableTokens(p.limit, hit_count)
    IN  \/ GetHitCountUnderflows(state, t)
        \/ tokens = 0 /\ SlidingCalcUnderflows(state, p.limit, hit_count, t)
        \/ /\ tokens > 0
           /\ ~(IsSome(offered) /\ Unwrap(offered) >= tokens)
           /\ SlidingCalcUnderflows(state, p.limit, tokens, t)

\* C12: sliding window: no reserve/consume call with tokens <= limit has
\* get_hit_count or calculate_time_for_tokens evaluate an unsigned
\* subtraction whose result is negative, probes and calls made with the
\* effective hit count above the limit included.
SlidingNeverUnderflows ==
    [][Called /\ algo = "sliding" /\ last'.tokens <= policy.limit =>
          /\ ~SlidingSubtractsBelowZero(policy, store[last'.key],
                                        last'.tokens, now)
          /\ last'.res # "Panic"]_vars

\* The hit count of the window a commit at t lands in, before the commit.
CurrentWindowHits(st, t) ==
    IF algo = "fixed" /\ (t - st.timer) > st.interval THEN 0 ELSE st.hit_count

\* C13: a non-probe request (0 < tokens <= limit) that does not fit what is
\* available and is not refused for max_wait returns Ok with accepted = false
\* and is committed anyway; every Ok non-probe reserve, accepted or deferred,
\* saves the key's state with exactly `tokens` added to the current window's
\* hit_count.
DeferredCommitsExactly ==
    [][Called /\ last'.tokens > 0 /\ last'.tokens <= policy.limit =>
          LET st == Loaded(policy, store[last'.key], now)
              offered == AvailableNow(policy, st, now)
              fits == IsSome(offered) /\ Unwrap(offered) >= last'.tokens
          IN  /\ (~fits /\ last'.res # "MaxWaitDurationExceededError") =>
                    (last'.res = "Ok" /\ ~last'.accepted)
              /\ last'.res = "Ok" =>
                    /\ last'.saved
                    /\ store'[last'.key].hit_count
                          = CurrentWindowHits(st, now) + last'.tokens]_vars

\* C14: fixed window lazy reset: a committing reserve at now on stored state
\* (timer, hit_count) saves timer = now and hit_count = tokens when
\* now - timer > interval, and otherwise (boundary included) keeps timer and
\* adds tokens to hit_count; the stored state changes in no other step.
FixedLazyReset ==
    [][/\ (Called /\ algo = "fixed" /\ store[last'.key] # Absent
                  /\ last'.saved) =>
             LET pre == store[last'.key]
             IN  store'[last'.key] =
                    IF now - pre.timer > pre.interval
                    THEN [pre EXCEPT !.timer = now, !.hit_count = last'.tokens]
                    ELSE [pre EXCEPT !.hit_count = @ + last'.tokens]
       /\ (algo = "fixed" /\ store' # store) =>
             (Called /\ last'.saved /\ last'.tokens > 0)]_vars

FixedBoundaryCommitSeen ==
    /\ algo = "fixed"
    /\ last.op = "reserve" /\ last.res = "Ok" /\ last.saved
    /\ store[last.key].timer + store[last.key].interval = last.now
    /\ store[last.key].hit_count > last.tokens

\* C15: fixed window: every deferred reservation (accepted = false) has
\* retry_after = timer + interval of the current window, whatever the number
\* of tokens asked and however far the window is over-subscribed; a request
\* that fits has wait 0 (retry_after = now).
FixedDeferredUntilWindowEnd ==
    [][Called /\ algo = "fixed" /\ last'.res = "Ok" /\ last'.tokens > 0 =>
          LET st == FixedLoad(policy, store[last'.key])
          IN  /\ ~last'.accepted => last'.retry_after = st.timer + st.interval
              /\ last'.accepted => last'.retry_after = now]_vars

\* C16: sliding window roll-forward: a stored state that is not expired
\* (now <= window_end_at) is used unchanged; an expired one is rebuilt with
\* hit_count = 0 and, when now < window_end_at + interval, the next
\* contiguous window (window_end_at + interval) carrying the expired
\* window's hit_count as hit_count_for_last_window, otherwise a window ending
\* at now + interval with nothing carried. A commit saves that state with
\* tokens added.
SlidingRollForward ==
    [][(Called /\ algo = "sliding" /\ store[last'.key] # Absent
               /\ last'.tokens <= policy.limit) =>
          LET pre == store[last'.key]
              used ==
                 IF now <= pre.window_end_at THEN pre
                 ELSE IF now < pre.window_end_at + policy.interval
                 THEN [hit_count |-> 0,
                       hit_count_for_last_window |-> pre.hit_count,
                       interval |-> policy.interval,
                       window_end_at |-> pre.window_end_at + policy.interval]
                 ELSE [hit_count |-> 0, hit_count_for_last_window |-> 0,
                       interval |-> policy.interval,
                       window_end_at |-> now + policy.interval]
          IN  /\ SlidingLoad(policy, pre, now) = used
              /\ last'.saved =>
                    store'[last'.key] =
                       [used EXCEPT !.hit_count = @ + last'.tokens]]_vars

SlidingRolledForwardSeen ==
    /\ algo = "sliding"
    /\ last.op = "reserve" /\ last.res = "Ok" /\ last.saved
    /\ store[last.key].hit_count_for_last_window > 0
    /\ store[last.key].hit_count = last.tokens
    /\ last.now = store[last.key].window_end_at - 1

\* C17: sliding window: at an instant inside the stored window, get_hit_count
\* is hit_count + hit_count_for_last_window * (1 - f), with
\* f = (now - window start) / interval the elapsed proportion of the window:
\* the result lies between the floor and the ceiling of that product added
\* to hit_count, so the previous window's weight decays linearly.
SlidingHitCountDecaysLinearly ==
    (algo = "sliding" /\ store["a"] # Absent
        /\ now >= store["a"].window_end_at - store["a"].interval
        /\ now <= store["a"].window_end_at) =>
       LET st == store["a"]
           elapsed == now - (st.window_end_at - st.interval)
           weighted == st.hit_count_for_last_window * (st.interval - elapsed)
           floor == weighted \div st.interval
           ceiling == (weighted + st.interval - 1) \div st.interval
       IN  /\ GetHitCount(st, now) >= st.hit_count + floor
           /\ GetHitCount(st, now) <= st.hit_count + ceiling

(* ------------- a clock that has not yet passed one interval ----------- *)

\* The interval is any chrono::Duration, so it can exceed the timestamp:
\* the first instant explored here is at most one interval after the epoch.
EarlyEpoch == Interval - 2

InitEarly ==
    /\ algo = "fixed"
    /\ build \in {"checked", "wrapping"}
    /\ now = EarlyEpoch
    /\ store = [k \in Keys |-> Absent]
    /\ policy = NoPolicy
    /\ last = NoCall
    /\ inflight = [c \in Callers |-> Idle]
    /\ admitted = [k \in Keys |-> 0]

SpecEarly == InitEarly /\ [][Next]_vars

\* C18: fixed window: on a key with no stored state the first committing
\* reserve at now, whatever now and interval are (now <= interval included),
\* saves timer = now, hit_count = tokens and max_size = the policy's limit:
\* the first window spans [now, now + interval].
FixedFirstCommitOpensWindow ==
    [][(Called /\ algo = "fixed" /\ store[last'.key] = Absent
               /\ last'.saved) =>
          store'[last'.key] =
             [hit_count |-> last'.tokens, interval |-> policy.interval,
              max_size |-> policy.limit, timer |-> now]]_vars

\* C19: one caller at a time per key: between two consecutive window resets
\* (fixed) or roll-forwards (sliding) of a key, the tokens of all
\* reservations returned with accepted = true sum to at most the limit,
\* deferred commits in between included.
AdmittedWithinLimit ==
    \A k \in Keys : admitted[k] <= Limit

AdmittedFullSeen ==
    /\ admitted["a"] = Limit
    /\ store["a"] # Absent /\ store["a"].hit_count > Limit
    /\ last.op = "reserve" /\ last.res = "Ok" /\ ~last.accepted
    /\ last.tokens > 0

\* C20: every Reservation returned by reserve/consume has retry_after >= now
\* and time_to_act >= now, now being the time of the call (the computed wait
\* is never negative); an accepted non-probe reservation has
\* retry_after = time_to_act = now.
ReservationNotInThePast ==
    [][Called /\ last'.res = "Ok" =>
          /\ last'.retry_after >= now
          /\ last'.time_to_act >= now
          /\ (last'.accepted /\ last'.tokens > 0) =>
                (last'.retry_after = now /\ last'.time_to_act = now)]_vars

ReservationAheadSeen ==
    /\ algo = "sliding"
    /\ last.op = "reserve" /\ last.res = "Ok" /\ ~last.accepted
    /\ last.retry_after > last.now
    /\ last.time_to_act = last.retry_after
    /\ store[last.key].hit_count_for_last_window > 0

(* ------------------- policies on two keys of one store ---------------- *)

\* Policies are constructed in turn for either key of the same storage, so
\* calls on one key run against stored state of the other.
KeysMaxTime == Epoch + Interval + 1

\* A probe, a full burst and a request over the limit.
KeysTokens == {0, Limit, Limit + 1}

\* The clock advances, far enough for a window of either key to end.
TickKeys ==
    /\ now < KeysMaxTime
    /\ now' = now + 1
    /\ UNCHANGED <<algo, build, store, policy, last, inflight, admitted>>

NextKeys ==
    \/ TickKeys
    \/ \E key \in Keys : NewPolicy(Limit, key)
    \/ \E tokens \in KeysTokens : Reserve(tokens, Some(0))
    \/ \E tokens \in KeysTokens : Consume(tokens)

SpecKeys == Init /\ [][NextKeys]_vars

\* C21: key isolation: a reserve/consume call on a policy bound to key K
\* leaves Storage.fetch(K') as it was for every other key K', whatever the
\* call returns, so what a policy on K' would be offered at that instant is
\* the same before and after the call.
KeyIsolation ==
    [][Called =>
          \A k \in Keys \ {policy.key} :
             /\ StorageFetch(store', k) = StorageFetch(store, k)
             /\ ReserveOutcomes([policy EXCEPT !.key = k], store', 0, None, now)
                   = ReserveOutcomes([policy EXCEPT !.key = k], store, 0, None, now)]_vars

OtherKeyStoredSeen ==
    /\ last.op = "reserve" /\ last.key = "a"
    /\ last.res = "Ok" /\ last.saved /\ ~last.accepted
    /\ store["b"] # Absent /\ store["b"].hit_count = Limit
    /\ last.now > Epoch + Interval
    /\ store["a"].hit_count > Limit

====
